---------------------------- MODULE Spec2Model ----------------------------
(***************************************************************************)
(* Model of the private-asset transfer chaincode, first contract class of  *)
(* src/lib/assetTransfer.js (lines 7-747).                                 *)
(*                                                                         *)
(* The ledger is a set of keyed private-data collections.  A key that was  *)
(* never written reads as an empty buffer: getPrivateDataHash has length 0 *)
(* and JSON.parse of the empty buffer throws.  A stored value is modelled  *)
(* as an option: <<>> is "no value", <<v>> is the stored JSON value v.     *)
(*                                                                         *)
(* An invocation that returns (also through a catch block) commits every   *)
(* write it issued before returning.                                       *)
(***************************************************************************)
EXTENDS Integers, Sequences, FiniteSets, TLC

\* ------------------------------------------------------------------ bounds
\* The invocation timestamps run from 1 to MaxTime.
MaxTime == 5

\* ---------------------------------------------------------------- universe
\* parseInt reads its argument in base ten.
NumberBase == 10
Orgs == {"Org1MSP", "Org2MSP", "Org3MSP"}
AssetIds == {"A1", "A2"}
TxIds == {"T1", "T2"}
\* A tags argument is a JSON text; BadJSON is one that JSON.parse rejects.
BadJSON == "{"
IndexName == "assets"
Tags == {"red", "blue"}
Reasons == {"defective"}
\* The organization id a client passes along for an MSP (ownerOrgId,
\* newOwnerOrgId: opaque to the contract, copied into the record).
OrgIdOf(msp) == msp

VARIABLES
    assets,        \* assets[o]: key 'assets' of <o>PrivateCollection (the index)
    records,       \* records[o][a]: key a of <o>PrivateCollection
    txs,           \* txs[t]: key t of assetCollection
    transactions,  \* key 'transactions' of assetCollection
    activity,      \* key 'activity' of assetCollection
    now,           \* ctx.stub.getTxTimestamp() of the next writing invocation
    result,        \* message of the last invocation's result
    lastOp,        \* the last invocation: operation, caller, id argument
    createdBy,     \* createdBy[a]: organizations whose CreatePrivateAsset(a) returned Done
    pc,            \* position in the scenario (scenario specifications only)
    sc,            \* the scenario's participants and arguments
    trace,         \* the scenario's results so far
    reply          \* details of the last ReadLogs result

store == <<assets, records, txs, transactions, activity>>
ledger == <<assets, records, txs, transactions>>
vars == <<assets, records, txs, transactions, activity, now, result, lastOp,
          createdBy, pc, sc, trace, reply>>

\* ------------------------------------------------------------------ values
None == <<>>
Some(v) == <<v>>
Has(o) == o # <<>>
Val(o) == o[1]
\* A key that holds a JSON object where the code expects a list.
Object(v) == <<v, "object">>
IsObject(o) == Len(o) = 2

Min(a, b) == IF a <= b THEN a ELSE b

\* The asset IDs of a list of asset snapshots, in order.
IdsOf(snapshots) == [i \in 1..Len(snapshots) |-> snapshots[i].assetId]

\* Elements of a sequence as a set.
Range(s) == {s[i] : i \in 1..Len(s)}

\* A field of a JSON object that may lack it: undefined is falsy.
Truthy(obj, f) == IF f \in DOMAIN obj THEN obj[f] ELSE FALSE

\* obj.f = v on a JSON object (adds the field when it is missing).
SetField(obj, f, v) == [g \in DOMAIN obj \cup {f} |-> IF g = f THEN v ELSE obj[g]]

\* The loop
\*     arr.forEach((x, i) => { ids.forEach((id) => { if (id === x) arr.splice(i, 1); }) })
\* forEach visits the indexes 0..n0-1 of the array's original length and skips
\* an index that is no longer inside the array; x is read once per visit, and
\* every id equal to x removes the element that is at index i at that moment.
RECURSIVE SpliceFrom(_, _, _, _)
SpliceFrom(arr, ids, k, n0) ==
    IF k > n0 \/ k > Len(arr) THEN arr
    ELSE LET x    == arr[k]
             hits == Cardinality({i \in 1..Len(ids) : ids[i] = x})
             cut  == Min(hits, Len(arr) - k + 1)
             rest == SubSeq(arr, 1, k - 1) \o SubSeq(arr, k + cut, Len(arr))
         IN SpliceFrom(rest, ids, k + 1, n0)

SpliceLoop(arr, ids) == SpliceFrom(arr, ids, 1, Len(arr))

\* ----------------------------------------------------------------- LogIt
\* LogIt prepends one entry to 'activity'.  With an assetIds argument that is
\* not an array (assetIds.forEach is not a function) it throws inside its own
\* try block and writes nothing.  The description and the asynchronously
\* collected asset details of an entry are not modelled.
\* LogIt that stores the new entry alone.
LogIt_Overwrite(MSP, action, isArray) ==
    IF ~isArray THEN activity
    ELSE Some(<<[initiated |-> MSP, action |-> action, timestamp |-> now]>>)

LogIt(MSP, action, isArray) ==
    IF ~isArray THEN activity
    ELSE LET entry == [initiated |-> MSP, action |-> action, timestamp |-> now]
         IN IF Has(activity) THEN Some(<<entry>> \o Val(activity))
                             ELSE Some(<<entry>>)

\* --------------------------------------------------------------- ReadLogs
\* A string argument is a sequence of characters.
Digits == <<"0", "1", "2", "3", "4", "5", "6", "7", "8", "9">>
IsDigit(c) == \E d \in 1..Len(Digits) : Digits[d] = c
DigitValue(c) == (CHOOSE d \in 1..Len(Digits) : Digits[d] = c) - 1

\* The value of the longest prefix of digits of s from position k on, given
\* the value acc of the digits before k.
RECURSIVE ParseDigits(_, _, _)
ParseDigits(s, k, acc) ==
    IF k > Len(s) \/ ~IsDigit(s[k]) THEN acc
    ELSE ParseDigits(s, k + 1, NumberBase * acc + DigitValue(s[k]))

\* parseInt(s): an optional sign, then the longest prefix of digits; NaN (no
\* value) when there is no digit at that place.
parseInt(s) ==
    LET signed == Len(s) >= 1 /\ s[1] \in {"-", "+"}
        first  == IF signed THEN 2 ELSE 1
    IN IF first > Len(s) \/ ~IsDigit(s[first]) THEN None
       ELSE LET n == ParseDigits(s, first, 0)
            IN Some(IF signed /\ s[1] = "-" THEN 0 - n ELSE n)

\* Without the filter.
GetLogsByMSP_All(activities, msp) == activities

GetLogsByMSP(activities, msp) == SelectSeq(activities, LAMBDA e : e.initiated = msp)

Max(a, b) == IF a >= b THEN a ELSE b

\* logs.splice(start, deleteCount): start NaN counts as 0, a negative start
\* counts from the end; removed are the elements taken out, kept is what the
\* array holds afterwards.
Splice(logs, start, deleteCount) ==
    LET len  == Len(logs)
        rel  == IF Has(start) THEN Val(start) ELSE 0
        from == IF rel < 0 THEN Max(len + rel, 0) ELSE Min(rel, len)
        cnt  == Min(Max(deleteCount, 0), len - from)
    IN [removed |-> SubSeq(logs, from + 1, from + cnt),
        kept    |-> SubSeq(logs, 1, from) \o SubSeq(logs, from + cnt + 1, len)]

\* GetItemsByOffset(logs, start, offset): items is the returned value (no value
\* for null), array is the argument array after the call.  A comparison with
\* NaN is false.
GetItemsByOffset(logs, start, offset) ==
    IF Has(start) /\ Len(logs) <= Val(start)
    THEN [items |-> None, array |-> logs]
    ELSE LET sp == Splice(logs, start, offset)
         IN [items |-> Some(sp.removed), array |-> sp.kept]

\* details of ReadLogs when no log is stored: the empty array.
EmptyArray == [length |-> 0]

\* ReadLogs(start, offset) by MSP: the details of its result (the message is
\* always Done: nothing in the try block throws on a stored log).  count is
\* read from _logs after GetItemsByOffset has spliced that same array.
ReadLogs(MSP, start, offset) ==
    IF ~Has(activity) THEN EmptyArray
    ELSE LET s     == parseInt(start)
             o     == parseInt(offset)
             _logs == GetLogsByMSP(Val(activity), MSP)
         IN IF Has(o) /\ Val(o) > 0
            THEN LET got == GetItemsByOffset(_logs, s, Val(o))
                 IN [logs |-> got.items, count |-> Len(got.array)]
            ELSE [logs |-> Some(_logs), count |-> Len(_logs)]

\* ------------------------------------------------------- asset operations
\* AssetRecord with no history entry.
AssetRecord_NoHistory(MSP, assetId, tags) ==
    [assetId |-> assetId, tags |-> tags, history |-> <<>>]

AssetRecord(MSP, assetId, tags) ==
    [assetId |-> assetId, tags |-> tags,
     history |-> <<[MSP |-> MSP, timestamp |-> now]>>]

\* The index and the record of an asset are keys of one collection: with
\* assetId = 'assets' the record is put under the index key after the index,
\* and the later put is the one that commits.  [assetId, ...assets] throws
\* where the key holds an object.
CreatePrivateAsset(MSP, assetId, tags) ==
    IF tags = BadJSON \/ IsObject(assets[MSP])
    THEN /\ activity' = LogIt(MSP, "ERROR CREATE ASSET", TRUE)
         /\ result' = "Error"
         /\ UNCHANGED ledger
    ELSE IF assetId = IndexName
    THEN /\ assets' = [assets EXCEPT ![MSP] = Object(AssetRecord(MSP, assetId, tags))]
         /\ activity' = LogIt(MSP, "CREATE ASSET", TRUE)
         /\ result' = "Done"
         /\ UNCHANGED <<records, txs, transactions>>
    ELSE /\ assets' = [assets EXCEPT ![MSP] =
                          IF Has(@) THEN Some(<<assetId>> \o Val(@))
                                    ELSE Some(<<assetId>>)]
         /\ records' = [records EXCEPT ![MSP][assetId] =
                          Some(AssetRecord(MSP, assetId, tags))]
         /\ activity' = LogIt(MSP, "CREATE ASSET", TRUE)
         /\ result' = "Done"
         /\ UNCHANGED <<txs, transactions>>

\* UpdatePrivateAsset that looks for the ID in the index.
UpdatePrivateAsset_ByIndex(MSP, assetId, tags) ==
    IF ~Has(records[MSP][assetId])
       \/ ~(Has(assets[MSP]) /\ \E i \in 1..Len(Val(assets[MSP])) : Val(assets[MSP])[i] = assetId)
    THEN /\ result' = "Error"
         /\ UNCHANGED store
    ELSE IF tags = BadJSON
    THEN /\ activity' = LogIt(MSP, "ERROR UPDATE ASSET", TRUE)
         /\ result' = "Error"
         /\ UNCHANGED ledger
    ELSE /\ records' = [records EXCEPT ![MSP][assetId] =
                          Some([Val(@) EXCEPT !.tags = tags])]
         /\ activity' = LogIt(MSP, "SUCCESS UPDATE ASSET", TRUE)
         /\ result' = "Done"
         /\ UNCHANGED <<assets, txs, transactions>>

UpdatePrivateAsset(MSP, assetId, tags) ==
    IF ~Has(records[MSP][assetId])
    THEN /\ result' = "Error"
         /\ UNCHANGED store
    ELSE IF tags = BadJSON
    THEN /\ activity' = LogIt(MSP, "ERROR UPDATE ASSET", TRUE)
         /\ result' = "Error"
         /\ UNCHANGED ledger
    ELSE /\ records' = [records EXCEPT ![MSP][assetId] =
                          Some([Val(@) EXCEPT !.tags = tags])]
         /\ activity' = LogIt(MSP, "SUCCESS UPDATE ASSET", TRUE)
         /\ result' = "Done"
         /\ UNCHANGED <<assets, txs, transactions>>

\* The index is rewritten; no record is deleted.
RemovePrivateAsset(MSP, assetIds) ==
    IF ~Has(assets[MSP])
    THEN /\ result' = "Error"
         /\ UNCHANGED store
    ELSE /\ assets' = [assets EXCEPT ![MSP] = Some(SpliceLoop(Val(@), assetIds))]
         /\ activity' = LogIt(MSP, "SUCCESS REMOVE ASSET", TRUE)
         /\ result' = "Done"
         /\ UNCHANGED <<records, txs, transactions>>

\* ReadPrivateAsset that looks for the record in every partition.
ReadPrivateAsset_AnyPartition(MSP, assetId) ==
    IF \E o \in Orgs : Has(records[o][assetId])
    THEN [message |-> "Done",
          details |-> records[CHOOSE o \in Orgs : Has(records[o][assetId])][assetId]]
    ELSE [message |-> "Error", details |-> None]

\* ReadPrivateAsset: Done with the record, or Error when the key has no value.
ReadPrivateAsset(MSP, assetId) ==
    IF Has(records[MSP][assetId])
    THEN [message |-> "Done", details |-> records[MSP][assetId]]
    ELSE [message |-> "Error", details |-> None]

\* ------------------------------------------------- transaction operations
\* AssetDetails that takes each requested ID once.
AssetDetails_Once(MSP, assetIds) ==
    LET found == SelectSeq(assetIds,
                     LAMBDA a : ReadPrivateAsset(MSP, a).message = "Done")
        first == {i \in 1..Len(found) : \A j \in 1..(i - 1) : found[j] # found[i]}
        once  == SelectSeq([i \in 1..Len(found) |-> IF i \in first THEN found[i] ELSE ""],
                           LAMBDA a : a # "")
    IN [i \in 1..Len(once) |-> Val(ReadPrivateAsset(MSP, once[i]).details)]

\* The records of the requested IDs that ReadPrivateAsset finds, in request
\* order; an ID without a record is skipped.
AssetDetails(MSP, assetIds) ==
    LET found == SelectSeq(assetIds,
                     LAMBDA a : ReadPrivateAsset(MSP, a).message = "Done")
    IN [i \in 1..Len(found) |-> Val(ReadPrivateAsset(MSP, found[i]).details)]

\* TxRecord with the owner's approval already set at creation.
TxRecord_Approved(transactionId, assetDetails, newOwnerMSP, ownerOrgId, newOwnerOrgId) ==
    [id |-> transactionId, assetIds |-> assetDetails, newOwnerMSP |-> newOwnerMSP,
     isNewOwnerAccepted |-> FALSE, isCurrentOwnerApproved |-> TRUE,
     isCancelled |-> FALSE, isReturned |-> FALSE, cancelledAt |-> 0,
     returnedAt |-> 0, reasonForReturn |-> "", ownerOrgId |-> ownerOrgId,
     newOwnerOrgId |-> newOwnerOrgId, isOwnershipChanged |-> FALSE]

TxRecord(transactionId, assetDetails, newOwnerMSP, ownerOrgId, newOwnerOrgId) ==
    [id |-> transactionId, assetIds |-> assetDetails, newOwnerMSP |-> newOwnerMSP,
     isNewOwnerAccepted |-> FALSE, isCurrentOwnerApproved |-> FALSE,
     isCancelled |-> FALSE, isReturned |-> FALSE, cancelledAt |-> 0,
     returnedAt |-> 0, reasonForReturn |-> "", ownerOrgId |-> ownerOrgId,
     newOwnerOrgId |-> newOwnerOrgId, isOwnershipChanged |-> FALSE]

\* The 'transactions' list with {id, created} put in front.
WithTransaction(transactionId) ==
    LET entry == [id |-> transactionId, created |-> now]
    IN IF Has(transactions) THEN Some(<<entry>> \o Val(transactions))
                            ELSE Some(<<entry>>)

\* Both LogIt calls of CreatePrivateTransaction pass the assetIds argument as
\* the JSON text it arrived in, not as an array.
CreatePrivateTransaction(MSP, ownerOrgId, newOwnerOrgId, transactionId, assetIds, newOwnerMSP) ==
    IF ~Has(assets[MSP])
    THEN /\ activity' = LogIt(MSP, "ERROR INITIATE TRANSACTION", FALSE)
         /\ result' = "Error"
         /\ UNCHANGED ledger
    ELSE /\ assets' = [assets EXCEPT ![MSP] = Some(SpliceLoop(Val(@), assetIds))]
         /\ txs' = [txs EXCEPT ![transactionId] =
                       Some(TxRecord(transactionId, AssetDetails(MSP, assetIds),
                                     newOwnerMSP, ownerOrgId, newOwnerOrgId))]
         /\ transactions' = WithTransaction(transactionId)
         /\ activity' = LogIt(MSP, "INITIATE TRANSACTION", FALSE)
         /\ result' = "Done"
         /\ UNCHANGED records

CancelTransaction(MSP, transactionId) ==
    IF ~Has(txs[transactionId])
    THEN /\ result' = "Error"
         /\ UNCHANGED store
    ELSE LET transaction == Val(txs[transactionId])
             toBackAssetIds == IdsOf(transaction.assetIds)
         IN IF transaction.newOwnerMSP = MSP
            THEN /\ result' = "Error"
                 /\ UNCHANGED store
            ELSE IF ~Has(assets[MSP])
            THEN /\ activity' = LogIt(MSP, "ERROR CANCEL TRANSACTION", TRUE)
                 /\ result' = "Error"
                 /\ UNCHANGED ledger
            ELSE /\ assets' = [assets EXCEPT ![MSP] = Some(Val(@) \o toBackAssetIds)]
                 /\ txs' = [txs EXCEPT ![transactionId] =
                               Some([transaction EXCEPT !.isCancelled = TRUE,
                                                        !.cancelledAt = now])]
                 /\ activity' = LogIt(MSP, "CANCEL TRANSACTION", TRUE)
                 /\ result' = "Done"
                 /\ UNCHANGED <<records, transactions>>

\* AcceptTransaction that records the refused attempt in the activity log.
AcceptTransaction_LogsRefusal(MSP, transactionId) ==
    IF ~Has(txs[transactionId])
    THEN /\ activity' = LogIt(MSP, "ERROR ACCEPT TRANSACTION", TRUE)
         /\ result' = "Error"
         /\ UNCHANGED ledger
    ELSE LET transaction == Val(txs[transactionId])
         IN IF MSP = transaction.newOwnerMSP
            THEN /\ txs' = [txs EXCEPT ![transactionId] =
                               Some([transaction EXCEPT !.isNewOwnerAccepted = TRUE])]
                 /\ activity' = LogIt(MSP, "ACCEPT TRANSACTION", TRUE)
                 /\ result' = "Done"
                 /\ UNCHANGED <<assets, records, transactions>>
            ELSE /\ activity' = LogIt(MSP, "ERROR ACCEPT TRANSACTION", TRUE)
                 /\ result' = "Error"
                 /\ UNCHANGED ledger

AcceptTransaction(MSP, transactionId) ==
    IF ~Has(txs[transactionId])
    THEN /\ activity' = LogIt(MSP, "ERROR ACCEPT TRANSACTION", TRUE)
         /\ result' = "Error"
         /\ UNCHANGED ledger
    ELSE LET transaction == Val(txs[transactionId])
         IN IF MSP = transaction.newOwnerMSP
            THEN /\ txs' = [txs EXCEPT ![transactionId] =
                               Some([transaction EXCEPT !.isNewOwnerAccepted = TRUE])]
                 /\ activity' = LogIt(MSP, "ACCEPT TRANSACTION", TRUE)
                 /\ result' = "Done"
                 /\ UNCHANGED <<assets, records, transactions>>
            ELSE /\ result' = "Error"
                 /\ UNCHANGED store

\* TransferNow that does not wait for the new owner's acceptance.
TransferNow_Unaccepted(MSP, transactionId) ==
    IF ~Has(txs[transactionId])
    THEN /\ activity' = LogIt(MSP, "ERROR TRANSFERRING", TRUE)
         /\ result' = "Error"
         /\ UNCHANGED ledger
    ELSE LET transaction == Val(txs[transactionId])
             assetIds == IdsOf(transaction.assetIds)
         IN IF MSP = transaction.newOwnerMSP
            THEN /\ result' = "Error"
                 /\ UNCHANGED store
            ELSE IF ~Has(assets[MSP])
            THEN /\ activity' = LogIt(MSP, "ERROR TRANSFERRING", TRUE)
                 /\ result' = "Error"
                 /\ UNCHANGED ledger
            ELSE /\ assets' = [assets EXCEPT ![MSP] = Some(SpliceLoop(Val(@), assetIds))]
                 /\ records' = [records EXCEPT ![MSP] =
                                   [a \in AssetIds |->
                                       IF a \in Range(assetIds) THEN None ELSE @[a]]]
                 /\ txs' = [txs EXCEPT ![transactionId] =
                               Some([transaction EXCEPT !.isCurrentOwnerApproved = TRUE])]
                 /\ activity' = LogIt(MSP, "TRANSFERRED", TRUE)
                 /\ result' = "Done"
                 /\ UNCHANGED transactions

TransferNow(MSP, transactionId) ==
    IF ~Has(txs[transactionId])
    THEN /\ activity' = LogIt(MSP, "ERROR TRANSFERRING", TRUE)
         /\ result' = "Error"
         /\ UNCHANGED ledger
    ELSE LET transaction == Val(txs[transactionId])
             assetIds == IdsOf(transaction.assetIds)
         IN IF MSP = transaction.newOwnerMSP
            THEN /\ result' = "Error"
                 /\ UNCHANGED store
            ELSE IF ~transaction.isNewOwnerAccepted
            THEN /\ result' = "Error"
                 /\ UNCHANGED store
            ELSE IF ~Has(assets[MSP])
            THEN /\ activity' = LogIt(MSP, "ERROR TRANSFERRING", TRUE)
                 /\ result' = "Error"
                 /\ UNCHANGED ledger
            ELSE /\ assets' = [assets EXCEPT ![MSP] = Some(SpliceLoop(Val(@), assetIds))]
                 /\ records' = [records EXCEPT ![MSP] =
                                   [a \in AssetIds |->
                                       IF a \in Range(assetIds) THEN None ELSE @[a]]]
                 /\ txs' = [txs EXCEPT ![transactionId] =
                               Some([transaction EXCEPT !.isCurrentOwnerApproved = TRUE])]
                 /\ activity' = LogIt(MSP, "TRANSFERRED", TRUE)
                 /\ result' = "Done"
                 /\ UNCHANGED transactions

\* Owned with the history left as it was in the snapshot.
Owned_HistoryKept(MSP, snapshots) == snapshots

\* Each snapshot of the transaction gets {MSP, timestamp} put in front of its
\* history; the snapshots are the transaction's own objects, so the record
\* written back carries the longer histories too.
Owned(MSP, snapshots) ==
    [i \in 1..Len(snapshots) |->
        [snapshots[i] EXCEPT !.history = <<[MSP |-> MSP, timestamp |-> now]>> \o @]]

\* The value a sequence of puts leaves under key a: the last snapshot with that ID.
LastPut(snapshots, a) ==
    LET at == {i \in 1..Len(snapshots) : snapshots[i].assetId = a}
    IN snapshots[CHOOSE i \in at : \A j \in at : j <= i]

\* OwnAsset that deletes the transaction record once the assets are owned.
OwnAsset_Deletes(MSP, transactionId) ==
    IF ~Has(txs[transactionId])
    THEN /\ activity' = LogIt(MSP, "OWNED", TRUE)
         /\ result' = "Error"
         /\ UNCHANGED ledger
    ELSE LET transaction == Val(txs[transactionId])
             assetIds == IdsOf(transaction.assetIds)
             owned == Owned(MSP, transaction.assetIds)
         IN IF MSP # transaction.newOwnerMSP
            THEN /\ result' = "Error"
                 /\ UNCHANGED store
            ELSE IF ~transaction.isCurrentOwnerApproved
            THEN /\ result' = "Error"
                 /\ UNCHANGED store
            ELSE /\ assets' = [assets EXCEPT ![MSP] =
                                  IF Has(@) THEN Some(assetIds \o Val(@))
                                            ELSE Some(assetIds)]
                 /\ records' = [records EXCEPT ![MSP] =
                                   [a \in AssetIds |->
                                       IF a \in Range(assetIds)
                                       THEN Some(LastPut(owned, a)) ELSE @[a]]]
                 /\ txs' = [txs EXCEPT ![transactionId] = None]
                 /\ activity' = LogIt(MSP, "OWNED", TRUE)
                 /\ result' = "Done"
                 /\ UNCHANGED transactions

OwnAsset(MSP, transactionId) ==
    IF ~Has(txs[transactionId])
    THEN /\ activity' = LogIt(MSP, "OWNED", TRUE)
         /\ result' = "Error"
         /\ UNCHANGED ledger
    ELSE LET transaction == Val(txs[transactionId])
             assetIds == IdsOf(transaction.assetIds)
             owned == Owned(MSP, transaction.assetIds)
         IN IF MSP # transaction.newOwnerMSP
            THEN /\ result' = "Error"
                 /\ UNCHANGED store
            ELSE IF ~transaction.isCurrentOwnerApproved
            THEN /\ result' = "Error"
                 /\ UNCHANGED store
            ELSE /\ assets' = [assets EXCEPT ![MSP] =
                                  IF Has(@) THEN Some(assetIds \o Val(@))
                                            ELSE Some(assetIds)]
                 /\ records' = [records EXCEPT ![MSP] =
                                   [a \in AssetIds |->
                                       IF a \in Range(assetIds)
                                       THEN Some(LastPut(owned, a)) ELSE @[a]]]
                 /\ txs' = [txs EXCEPT ![transactionId] =
                               Some(SetField([transaction EXCEPT !.assetIds = owned],
                                             "isOwnershipChanged", TRUE))]
                 /\ activity' = LogIt(MSP, "OWNED", TRUE)
                 /\ result' = "Done"
                 /\ UNCHANGED transactions

\* --------------------------------------------------------- return path
\* ReturnTransaction and AcceptReturnTransaction pass orgCollectionName, the
\* array [MSP, 'PrivateCollection'], to the stub without .join(''); the stub
\* accepts only a string as collection name and throws on anything else.
ArrayCollectionRejected == TRUE

\* The record of a return transaction: it has no isOwnershipChanged field.
ReturnRecord(transactionId, toBeReturned, newOwnerMSP, reason) ==
    [id |-> transactionId, assetIds |-> toBeReturned.assetIds,
     newOwnerMSP |-> newOwnerMSP,
     isNewOwnerAccepted |-> FALSE, isCurrentOwnerApproved |-> FALSE,
     isCancelled |-> FALSE, isReturned |-> TRUE, cancelledAt |-> 0,
     returnedAt |-> now, reasonForReturn |-> reason,
     ownerOrgId |-> toBeReturned.ownerOrgId,
     newOwnerOrgId |-> toBeReturned.newOwnerOrgId]

\* The record is written first; a statement that throws after it leaves the
\* record written and ends in the catch block.
ReturnTransaction(MSP, transactionId, referTransactionId, newOwnerMSP, reason) ==
    IF ~Has(txs[referTransactionId])
    THEN /\ result' = "Error"
         /\ UNCHANGED store
    ELSE LET toBeReturned == Val(txs[referTransactionId])
             written == [txs EXCEPT ![transactionId] =
                            Some(ReturnRecord(transactionId, toBeReturned,
                                              newOwnerMSP, reason))]
         IN IF ~Has(transactions) \/ ArrayCollectionRejected \/ ~Has(assets[MSP])
            THEN /\ txs' = written
                 /\ activity' = LogIt(MSP, "ERROR RETURN TRANSACTION", TRUE)
                 /\ result' = "Error"
                 /\ UNCHANGED <<assets, records, transactions>>
            ELSE /\ txs' = written
                 /\ assets' = [assets EXCEPT ![MSP] =
                                  Some(SpliceLoop(Val(@), IdsOf(toBeReturned.assetIds)))]
                 /\ transactions' = WithTransaction(transactionId)
                 /\ activity' = LogIt(MSP, "RETURN TRANSACTION", TRUE)
                 /\ result' = "Done"
                 /\ UNCHANGED records

\* After the index is written every record is put under asset.asseId, which is
\* undefined: the stub rejects the key and the first put throws.
AcceptReturnTransaction(MSP, transactionId) ==
    IF ~Has(txs[transactionId])
    THEN /\ result' = "Error"
         /\ UNCHANGED store
    ELSE LET transaction == Val(txs[transactionId])
             assetIds == IdsOf(transaction.assetIds)
         IN IF ArrayCollectionRejected \/ ~Has(assets[MSP])
            THEN /\ activity' = LogIt(MSP, "ERROR RETURN ASSETS", TRUE)
                 /\ result' = "Error"
                 /\ UNCHANGED ledger
            ELSE /\ assets' = [assets EXCEPT ![MSP] = Some(assetIds \o Val(@))]
                 /\ activity' = LogIt(MSP, IF assetIds = <<>> THEN "SUCCESS RETURN ASSETS"
                                                              ELSE "ERROR RETURN ASSETS", TRUE)
                 /\ result' = IF assetIds = <<>> THEN "Done" ELSE "Error"
                 /\ UNCHANGED <<records, txs, transactions>>

\* ------------------------------------------------------ DeleteTransaction
\* The loop
\*     transactions.forEach((transaction, index) => {
\*         if (transaction.id === transactionId) transactions.splice(index, 1); })
\* visits the indexes 0..n0-1 and skips an index that is no longer inside the
\* array; after a removal the element that moved to the visited index is not
\* looked at.
RECURSIVE DeleteFrom(_, _, _, _)
DeleteFrom(arr, transactionId, k, n0) ==
    IF k > n0 \/ k > Len(arr) THEN arr
    ELSE IF arr[k].id = transactionId
    THEN DeleteFrom(SubSeq(arr, 1, k - 1) \o SubSeq(arr, k + 1, Len(arr)),
                    transactionId, k + 1, n0)
    ELSE DeleteFrom(arr, transactionId, k + 1, n0)

\* DeleteTransaction rewrites the 'transactions' list only; it asks for no
\* role and writes no activity entry.
\* DeleteTransaction that refuses while there is no activity log.
DeleteTransaction_Audited(MSP, transactionId) ==
    IF ~Has(transactions) \/ ~Has(activity)
    THEN /\ result' = "Error"
         /\ UNCHANGED store
    ELSE /\ transactions' = Some(DeleteFrom(Val(transactions), transactionId, 1,
                                            Len(Val(transactions))))
         /\ result' = "Done"
         /\ UNCHANGED <<assets, records, txs, activity>>

DeleteTransaction(MSP, transactionId) ==
    IF ~Has(transactions)
    THEN /\ result' = "Error"
         /\ UNCHANGED store
    ELSE /\ transactions' = Some(DeleteFrom(Val(transactions), transactionId, 1,
                                            Len(Val(transactions))))
         /\ result' = "Done"
         /\ UNCHANGED <<assets, records, txs, activity>>

\* ---------------------------------------------------- read and write sets
\* A ledger key is a collection name and a key.  The read set of an
\* invocation holds the keys it passes to getPrivateDataHash or
\* getPrivateData, its write set the keys it passes to putPrivateData or
\* deletePrivateData.  A call that throws inside the stub, before anything is
\* sent, adds no key.
PrivateCollection(MSP) == <<MSP, "PrivateCollection">>
assetCollection == <<"assetCollection">>
IndexKey(MSP) == <<PrivateCollection(MSP), "assets">>
RecordKey(MSP, assetId) == <<PrivateCollection(MSP), assetId>>
TxKey(transactionId) == <<assetCollection, transactionId>>
TransactionsKey == <<assetCollection, "transactions">>
ActivityKey == <<assetCollection, "activity">>

RW(r, w) == [reads |-> r, writes |-> w]
Both(a, b) == RW(a.reads \cup b.reads, a.writes \cup b.writes)

\* LogIt probes 'activity', then asks for the caller's record of every ID of
\* an array argument, then reads and rewrites 'activity'; on a string it
\* throws after the probe.
LogIt_Keys(MSP, assetIds, isArray) ==
    IF ~isArray THEN RW({ActivityKey}, {})
    ELSE RW({ActivityKey} \cup {RecordKey(MSP, a) : a \in Range(assetIds)},
            {ActivityKey})

\* AcceptTransaction_Keys of an AcceptTransaction that writes the record
\* without having read it.
AcceptTransaction_Blind(MSP, transactionId) ==
    IF ~Has(txs[transactionId])
    THEN LogIt_Keys(MSP, <<>>, TRUE)
    ELSE LET transaction == Val(txs[transactionId])
         IN IF MSP = transaction.newOwnerMSP
            THEN Both(RW({}, {TxKey(transactionId)}),
                      RW({}, LogIt_Keys(MSP, IdsOf(transaction.assetIds), TRUE).writes))
            ELSE RW({}, {})

CreatePrivateAsset_Keys(MSP, assetId, tags) ==
    Both(RW({IndexKey(MSP)},
            IF tags = BadJSON THEN {} ELSE {IndexKey(MSP), RecordKey(MSP, assetId)}),
         LogIt_Keys(MSP, <<assetId>>, TRUE))

UpdatePrivateAsset_Keys(MSP, assetId, tags) ==
    IF ~Has(records[MSP][assetId])
    THEN RW({RecordKey(MSP, assetId)}, {})
    ELSE Both(RW({RecordKey(MSP, assetId)},
                 IF tags = BadJSON THEN {} ELSE {RecordKey(MSP, assetId)}),
              LogIt_Keys(MSP, <<assetId>>, TRUE))

RemovePrivateAsset_Keys(MSP, assetIds) ==
    IF ~Has(assets[MSP])
    THEN RW({IndexKey(MSP)}, {})
    ELSE Both(RW({IndexKey(MSP)}, {IndexKey(MSP)}), LogIt_Keys(MSP, assetIds, TRUE))

ReadPrivateAssets_Keys(MSP) == RW({IndexKey(MSP)}, {})

ReadPrivateAsset_Keys(MSP, assetId) == RW({RecordKey(MSP, assetId)}, {})

ReadLogs_Keys == RW({ActivityKey}, {})

\* 'transactions' is probed first, every requested ID is looked up with
\* ReadPrivateAsset and the index is read; JSON.parse of a missing index
\* throws before any write.
CreatePrivateTransaction_Keys(MSP, transactionId, assetIds) ==
    LET looked == {TransactionsKey, IndexKey(MSP)}
                      \cup {RecordKey(MSP, a) : a \in Range(assetIds)}
    IN IF ~Has(assets[MSP])
       THEN Both(RW(looked, {}), LogIt_Keys(MSP, assetIds, FALSE))
       ELSE Both(RW(looked, {IndexKey(MSP), TxKey(transactionId), TransactionsKey}),
                 LogIt_Keys(MSP, assetIds, FALSE))

CancelTransaction_Keys(MSP, transactionId) ==
    IF ~Has(txs[transactionId])
    THEN RW({TxKey(transactionId)}, {})
    ELSE LET transaction == Val(txs[transactionId])
             toBackAssetIds == IdsOf(transaction.assetIds)
         IN IF transaction.newOwnerMSP = MSP
            THEN RW({TxKey(transactionId)}, {})
            ELSE IF ~Has(assets[MSP])
            THEN Both(RW({TxKey(transactionId), IndexKey(MSP)}, {}),
                      LogIt_Keys(MSP, <<>>, TRUE))
            ELSE Both(RW({TxKey(transactionId), IndexKey(MSP)},
                         {IndexKey(MSP), TxKey(transactionId)}),
                      LogIt_Keys(MSP, toBackAssetIds, TRUE))

AcceptTransaction_Keys(MSP, transactionId) ==
    IF ~Has(txs[transactionId])
    THEN Both(RW({TxKey(transactionId)}, {}), LogIt_Keys(MSP, <<>>, TRUE))
    ELSE LET transaction == Val(txs[transactionId])
         IN IF MSP = transaction.newOwnerMSP
            THEN Both(RW({TxKey(transactionId)}, {TxKey(transactionId)}),
                      LogIt_Keys(MSP, IdsOf(transaction.assetIds), TRUE))
            ELSE RW({TxKey(transactionId)}, {})

TransferNow_Keys(MSP, transactionId) ==
    IF ~Has(txs[transactionId])
    THEN Both(RW({TxKey(transactionId)}, {}), LogIt_Keys(MSP, <<>>, TRUE))
    ELSE LET transaction == Val(txs[transactionId])
             assetIds == IdsOf(transaction.assetIds)
         IN IF MSP = transaction.newOwnerMSP \/ ~transaction.isNewOwnerAccepted
            THEN RW({TxKey(transactionId)}, {})
            ELSE IF ~Has(assets[MSP])
            THEN Both(RW({TxKey(transactionId), IndexKey(MSP)}, {}),
                      LogIt_Keys(MSP, <<>>, TRUE))
            ELSE Both(RW({TxKey(transactionId), IndexKey(MSP)},
                         {RecordKey(MSP, a) : a \in Range(assetIds)}
                             \cup {IndexKey(MSP), TxKey(transactionId)}),
                      LogIt_Keys(MSP, assetIds, TRUE))

OwnAsset_Keys(MSP, transactionId) ==
    IF ~Has(txs[transactionId])
    THEN Both(RW({TxKey(transactionId)}, {}), LogIt_Keys(MSP, <<>>, TRUE))
    ELSE LET transaction == Val(txs[transactionId])
             assetIds == IdsOf(transaction.assetIds)
         IN IF MSP # transaction.newOwnerMSP \/ ~transaction.isCurrentOwnerApproved
            THEN RW({TxKey(transactionId)}, {})
            ELSE Both(RW({TxKey(transactionId), IndexKey(MSP)},
                         {RecordKey(MSP, a) : a \in Range(assetIds)}
                             \cup {IndexKey(MSP), TxKey(transactionId)}),
                      LogIt_Keys(MSP, assetIds, TRUE))

\* The record is put under transactionId, 'transactions' is read, and the
\* index is asked for under the array, which the stub rejects.
ReturnTransaction_Keys(MSP, transactionId, referTransactionId) ==
    IF ~Has(txs[referTransactionId])
    THEN RW({TxKey(referTransactionId)}, {})
    ELSE LET assetIds == IdsOf(Val(txs[referTransactionId]).assetIds)
             begun == RW({TxKey(referTransactionId), TransactionsKey},
                         {TxKey(transactionId)})
         IN IF ~Has(transactions) \/ ArrayCollectionRejected
            THEN Both(begun, LogIt_Keys(MSP, assetIds, TRUE))
            ELSE IF ~Has(assets[MSP])
            THEN Both(Both(begun, RW({IndexKey(MSP)}, {})),
                      LogIt_Keys(MSP, assetIds, TRUE))
            ELSE Both(Both(begun, RW({IndexKey(MSP)}, {IndexKey(MSP), TransactionsKey})),
                      LogIt_Keys(MSP, assetIds, TRUE))

AcceptReturnTransaction_Keys(MSP, transactionId) ==
    IF ~Has(txs[transactionId])
    THEN RW({TxKey(transactionId)}, {})
    ELSE LET assetIds == IdsOf(Val(txs[transactionId]).assetIds)
         IN IF ArrayCollectionRejected
            THEN Both(RW({TxKey(transactionId)}, {}), LogIt_Keys(MSP, <<>>, TRUE))
            ELSE IF ~Has(assets[MSP])
            THEN Both(RW({TxKey(transactionId), IndexKey(MSP)}, {}),
                      LogIt_Keys(MSP, <<>>, TRUE))
            ELSE Both(RW({TxKey(transactionId), IndexKey(MSP)}, {IndexKey(MSP)}),
                      LogIt_Keys(MSP, assetIds, TRUE))

\* The read and write set of a call, in the state it is simulated against.
RWSet(call) ==
    CASE call.op = "CreatePrivateAsset" ->
             CreatePrivateAsset_Keys(call.MSP, call.id, call.tags)
      [] call.op = "UpdatePrivateAsset" ->
             UpdatePrivateAsset_Keys(call.MSP, call.id, call.tags)
      [] call.op = "RemovePrivateAsset" ->
             RemovePrivateAsset_Keys(call.MSP, call.assetIds)
      [] call.op = "ReadPrivateAssets" -> ReadPrivateAssets_Keys(call.MSP)
      [] call.op = "ReadPrivateAsset" -> ReadPrivateAsset_Keys(call.MSP, call.id)
      [] call.op = "ReadLogs" -> ReadLogs_Keys
      [] call.op = "CreatePrivateTransaction" ->
             CreatePrivateTransaction_Keys(call.MSP, call.id, call.assetIds)
      [] call.op = "CancelTransaction" -> CancelTransaction_Keys(call.MSP, call.id)
      [] call.op = "AcceptTransaction" -> AcceptTransaction_Keys(call.MSP, call.id)
      [] call.op = "TransferNow" -> TransferNow_Keys(call.MSP, call.id)
      [] call.op = "OwnAsset" -> OwnAsset_Keys(call.MSP, call.id)
      [] call.op = "ReturnTransaction" ->
             ReturnTransaction_Keys(call.MSP, call.id, call.referTransactionId)
      [] call.op = "AcceptReturnTransaction" ->
             AcceptReturnTransaction_Keys(call.MSP, call.id)

\* ------------------------------------------------------------ invocations
NoOp == [op |-> "none", MSP |-> "none", id |-> "none"]
NoScenario == [X |-> "none", Y |-> "none", a |-> "none", t |-> "none", r |-> "none"]

Init ==
    /\ assets = [o \in Orgs |-> None]
    /\ records = [o \in Orgs |-> [a \in AssetIds |-> None]]
    /\ txs = [t \in TxIds |-> None]
    /\ transactions = None
    /\ activity = None
    /\ now = 1
    /\ result = "none"
    /\ lastOp = NoOp
    /\ createdBy = [a \in AssetIds |-> {}]
    /\ pc = 0
    /\ sc = NoScenario
    /\ trace = <<>>
    /\ reply = None

\* One invocation: the operation runs as a whole and its writes commit.  The
\* clock advances with every invocation that wrote something.  Only the
\* message of its result is kept.
Invoke(Op, name, MSP, id) ==
    /\ Op
    /\ now' = IF store' # store THEN now + 1 ELSE now
    /\ lastOp' = [op |-> name, MSP |-> MSP, id |-> id]
    /\ UNCHANGED reply

\* An invocation outside a scenario; the clock stops at MaxTime.
Free == now <= MaxTime /\ UNCHANGED <<pc, sc, trace>>

CallCreatePrivateAsset(O, A, T) ==
    \E MSP \in O, assetId \in A, tags \in T :
        /\ Free
        /\ Invoke(CreatePrivateAsset(MSP, assetId, tags), "CreatePrivateAsset", MSP, assetId)
        /\ createdBy' = IF result' = "Done"
                        THEN [createdBy EXCEPT ![assetId] = @ \cup {MSP}]
                        ELSE createdBy

CallUpdatePrivateAsset(O, A, T) ==
    \E MSP \in O, assetId \in A, tags \in T :
        /\ Free
        /\ Invoke(UpdatePrivateAsset(MSP, assetId, tags), "UpdatePrivateAsset", MSP, assetId)
        /\ UNCHANGED createdBy

CallRemovePrivateAsset(O, L) ==
    \E MSP \in O, assetIds \in L :
        /\ Free
        /\ Invoke(RemovePrivateAsset(MSP, assetIds), "RemovePrivateAsset", MSP, "none")
        /\ UNCHANGED createdBy

CallCreatePrivateTransaction(O, X, L, N) ==
    \E MSP \in O, transactionId \in X, assetIds \in L, newOwnerMSP \in N :
        /\ Free
        /\ Invoke(CreatePrivateTransaction(MSP, OrgIdOf(MSP), OrgIdOf(newOwnerMSP),
                                           transactionId, assetIds, newOwnerMSP),
                  "CreatePrivateTransaction", MSP, transactionId)
        /\ UNCHANGED createdBy

CallCancelTransaction(O, X) ==
    \E MSP \in O, transactionId \in X :
        /\ Free
        /\ Invoke(CancelTransaction(MSP, transactionId), "CancelTransaction", MSP, transactionId)
        /\ UNCHANGED createdBy

CallAcceptTransaction(O, X) ==
    \E MSP \in O, transactionId \in X :
        /\ Free
        /\ Invoke(AcceptTransaction(MSP, transactionId), "AcceptTransaction", MSP, transactionId)
        /\ UNCHANGED createdBy

CallTransferNow(O, X) ==
    \E MSP \in O, transactionId \in X :
        /\ Free
        /\ Invoke(TransferNow(MSP, transactionId), "TransferNow", MSP, transactionId)
        /\ UNCHANGED createdBy

CallOwnAsset(O, X) ==
    \E MSP \in O, transactionId \in X :
        /\ Free
        /\ Invoke(OwnAsset(MSP, transactionId), "OwnAsset", MSP, transactionId)
        /\ UNCHANGED createdBy

CallReturnTransaction(O, X, R, N) ==
    \E MSP \in O, transactionId \in X, referTransactionId \in R, newOwnerMSP \in N,
       reason \in Reasons :
        /\ Free
        /\ Invoke(ReturnTransaction(MSP, transactionId, referTransactionId, newOwnerMSP, reason),
                  "ReturnTransaction", MSP, transactionId)
        /\ UNCHANGED createdBy

CallAcceptReturnTransaction(O, X) ==
    \E MSP \in O, transactionId \in X :
        /\ Free
        /\ Invoke(AcceptReturnTransaction(MSP, transactionId), "AcceptReturnTransaction",
                  MSP, transactionId)
        /\ UNCHANGED createdBy

CallDeleteTransaction(O, X) ==
    \E MSP \in O, transactionId \in X :
        /\ Free
        /\ Invoke(DeleteTransaction(MSP, transactionId), "DeleteTransaction",
                  MSP, transactionId)
        /\ UNCHANGED createdBy

\* CreatePrivateTransaction with the whole request kept in lastOp.
RequestCreatePrivateTransaction(O, X, L, N) ==
    \E MSP \in O, transactionId \in X, assetIds \in L, newOwnerMSP \in N :
        /\ now <= MaxTime
        /\ CreatePrivateTransaction(MSP, OrgIdOf(MSP), OrgIdOf(newOwnerMSP),
                                    transactionId, assetIds, newOwnerMSP)
        /\ now' = IF store' # store THEN now + 1 ELSE now
        /\ lastOp' = [op |-> "CreatePrivateTransaction", MSP |-> MSP,
                      id |-> transactionId, assetIds |-> assetIds,
                      newOwnerMSP |-> newOwnerMSP]
        /\ UNCHANGED <<createdBy, pc, sc, trace, reply>>

\* An invocation with all of its arguments kept in lastOp; the clock stops
\* after W invocations that wrote something, and invocations that write
\* nothing are still made then.
Request(Op, call, W) ==
    /\ Op
    /\ now' = IF store' # store THEN now + 1 ELSE now
    /\ now' <= W + 1
    /\ lastOp' = call
    /\ UNCHANGED <<pc, sc, trace, reply>>

RequestCreatePrivateAsset(O, A, T, W) ==
    \E MSP \in O, assetId \in A, tags \in T :
        /\ Request(CreatePrivateAsset(MSP, assetId, tags),
                   [op |-> "CreatePrivateAsset", MSP |-> MSP, id |-> assetId,
                    tags |-> tags], W)
        /\ createdBy' = IF result' = "Done"
                        THEN [createdBy EXCEPT ![assetId] = @ \cup {MSP}]
                        ELSE createdBy

\* CreatePrivateAsset with any string as assetId.
NamedCreatePrivateAsset(O, A, T, W) ==
    \E MSP \in O, assetId \in A, tags \in T :
        /\ Request(CreatePrivateAsset(MSP, assetId, tags),
                   [op |-> "CreatePrivateAsset", MSP |-> MSP, id |-> assetId,
                    tags |-> tags], W)
        /\ createdBy' = IF result' = "Done" /\ assetId \in AssetIds
                        THEN [createdBy EXCEPT ![assetId] = @ \cup {MSP}]
                        ELSE createdBy

RequestUpdatePrivateAsset(O, A, T, W) ==
    \E MSP \in O, assetId \in A, tags \in T :
        /\ Request(UpdatePrivateAsset(MSP, assetId, tags),
                   [op |-> "UpdatePrivateAsset", MSP |-> MSP, id |-> assetId,
                    tags |-> tags], W)
        /\ UNCHANGED createdBy

RequestRemovePrivateAsset(O, L, W) ==
    \E MSP \in O, assetIds \in L :
        /\ Request(RemovePrivateAsset(MSP, assetIds),
                   [op |-> "RemovePrivateAsset", MSP |-> MSP, id |-> "none",
                    assetIds |-> assetIds], W)
        /\ UNCHANGED createdBy

RequestTransferNow(O, X, W) ==
    \E MSP \in O, transactionId \in X :
        /\ Request(TransferNow(MSP, transactionId),
                   [op |-> "TransferNow", MSP |-> MSP, id |-> transactionId], W)
        /\ UNCHANGED createdBy

RequestOwnAsset(O, X, W) ==
    \E MSP \in O, transactionId \in X :
        /\ Request(OwnAsset(MSP, transactionId),
                   [op |-> "OwnAsset", MSP |-> MSP, id |-> transactionId], W)
        /\ UNCHANGED createdBy

RequestReturnTransaction(O, X, R, N, W) ==
    \E MSP \in O, transactionId \in X, referTransactionId \in R, newOwnerMSP \in N,
       reason \in Reasons :
        /\ Request(ReturnTransaction(MSP, transactionId, referTransactionId,
                                     newOwnerMSP, reason),
                   [op |-> "ReturnTransaction", MSP |-> MSP, id |-> transactionId,
                    referTransactionId |-> referTransactionId], W)
        /\ UNCHANGED createdBy

\* ReadPrivateAsset writes nothing.
CallReadPrivateAsset(O, A) ==
    \E MSP \in O, assetId \in A :
        /\ reply' = ReadPrivateAsset(MSP, assetId)
        /\ result' = reply'.message
        /\ lastOp' = [op |-> "ReadPrivateAsset", MSP |-> MSP, id |-> assetId]
        /\ UNCHANGED <<store, now, createdBy, pc, sc, trace>>

\* ReadLogs writes nothing.
CallReadLogs(O, S, F) ==
    \E MSP \in O, start \in S, offset \in F :
        /\ reply' = ReadLogs(MSP, start, offset)
        /\ result' = "Done"
        /\ lastOp' = [op |-> "ReadLogs", MSP |-> MSP,
                      id |-> [start |-> start, offset |-> offset]]
        /\ UNCHANGED <<store, now, createdBy, pc, sc, trace>>

\* ------------------------------------------------------------ vocabulary
InIndex(o, a) == Has(assets[o]) /\ a \in Range(Val(assets[o]))
HasRecord(o, a) == Has(records[o][a])
StoredTxs == {t \in TxIds : Has(txs[t])}
Tx(t) == Val(txs[t])
Contains(t, a) == a \in Range(IdsOf(Tx(t).assetIds))
OwnershipChanged(t) == Truthy(Tx(t), "isOwnershipChanged")
\* A transaction is terminal once cancelled or finalized, in flight before.
Terminal(t) == Tx(t).isCancelled \/ OwnershipChanged(t)
InFlight(t) == ~Terminal(t)
IndexOf(o) == IF Has(assets[o]) THEN Val(assets[o]) ELSE <<>>
Count(s, a) == Cardinality({i \in 1..Len(s) : s[i] = a})
\* The organization that proposed t: the client passes its id as ownerOrgId.
IsOwnerOf(MSP, t) == OrgIdOf(MSP) = Tx(t).ownerOrgId
IsSuffix(old, new) ==
    /\ Len(old) <= Len(new)
    /\ SubSeq(new, Len(new) - Len(old) + 1, Len(new)) = old
HistoryOrgs(o, a) == [i \in 1..Len(Val(records[o][a]).history) |->
                         Val(records[o][a]).history[i].MSP]

\* --------------------------------------------------------- specifications
OwnerOrg == "Org1MSP"
PeerOrg == "Org2MSP"
TwoOrgs == {OwnerOrg, PeerOrg}
OneAsset == {"A1"}
OneList == {<<"A1">>}
SomeLists == {<<"A1">>, <<"A2">>, <<"A1", "A2">>}
OneTx == {"T1"}
GoodTags == {"red"}

\* Spec: the six operations of the transfer protocol, invoked in any order by
\* two organizations; clients use every asset ID and every transaction ID for
\* one creation only and propose transfers to the other organization.
FreshCreatePrivateAsset ==
    \E MSP \in TwoOrgs, assetId \in AssetIds, tags \in GoodTags :
        /\ \A o \in Orgs : ~HasRecord(o, assetId)
        /\ createdBy[assetId] = {}
        /\ CallCreatePrivateAsset({MSP}, {assetId}, {tags})

FreshCreatePrivateTransaction ==
    \E MSP \in TwoOrgs, transactionId \in TxIds, assetIds \in SomeLists,
       newOwnerMSP \in TwoOrgs :
        /\ ~Has(txs[transactionId])
        /\ newOwnerMSP # MSP
        /\ CallCreatePrivateTransaction({MSP}, {transactionId}, {assetIds}, {newOwnerMSP})

Next ==
    \/ FreshCreatePrivateAsset
    \/ FreshCreatePrivateTransaction
    \/ CallAcceptTransaction(TwoOrgs, TxIds)
    \/ CallTransferNow(TwoOrgs, TxIds)
    \/ CallOwnAsset(TwoOrgs, TxIds)
    \/ CallCancelTransaction(TwoOrgs, TxIds)

Spec == Init /\ [][Next]_vars

\* SpecFlow: the protocol and ReturnTransaction on one transaction ID.
NextFlow ==
    \/ CallCreatePrivateAsset(TwoOrgs, OneAsset, GoodTags)
    \/ CallCreatePrivateTransaction(TwoOrgs, OneTx, OneList, TwoOrgs)
    \/ CallAcceptTransaction(TwoOrgs, OneTx)
    \/ CallTransferNow(TwoOrgs, OneTx)
    \/ CallOwnAsset(TwoOrgs, OneTx)
    \/ CallCancelTransaction(TwoOrgs, OneTx)
    \/ CallReturnTransaction(TwoOrgs, OneTx, OneTx, TwoOrgs)

SpecFlow == Init /\ [][NextFlow]_vars

\* SpecAll: every state-changing operation on assets and transactions.
NextAll ==
    \/ CallCreatePrivateAsset(TwoOrgs, OneAsset, GoodTags)
    \/ CallUpdatePrivateAsset(TwoOrgs, OneAsset, {"blue"})
    \/ CallRemovePrivateAsset(TwoOrgs, OneList)
    \/ CallCreatePrivateTransaction(TwoOrgs, OneTx, OneList, TwoOrgs)
    \/ CallAcceptTransaction(TwoOrgs, OneTx)
    \/ CallTransferNow(TwoOrgs, OneTx)
    \/ CallOwnAsset(TwoOrgs, OneTx)
    \/ CallCancelTransaction(TwoOrgs, OneTx)
    \/ CallReturnTransaction(TwoOrgs, OneTx, OneTx, TwoOrgs)
    \/ CallAcceptReturnTransaction(TwoOrgs, OneTx)

SpecAll == Init /\ [][NextAll]_vars

\* SpecThird: a third organization beside the owner and the counterparty.
NextThird ==
    \/ CallCreatePrivateAsset(Orgs, AssetIds, GoodTags)
    \/ CallCreatePrivateTransaction({OwnerOrg}, OneTx, OneList, {PeerOrg})
    \/ CallAcceptTransaction(Orgs, OneTx)
    \/ CallTransferNow(Orgs, OneTx)
    \/ CallCancelTransaction(Orgs, OneTx)

SpecThird == Init /\ [][NextThird]_vars

\* SpecScenario: owner X creates asset a and proposes it to Y in transaction t;
\* Y accepts, X approves, Y finalizes; then Y returns the assets in return
\* transaction r and X accepts the return.  Nothing is interleaved.
Step(n, Op, name, MSP, id) ==
    /\ pc = n
    /\ Invoke(Op, name, MSP, id)
    /\ pc' = n + 1
    /\ trace' = Append(trace, result')

StepCreatePrivateAsset ==
    \E X \in Orgs, Y \in Orgs, a \in AssetIds, t \in TxIds, r \in TxIds, tags \in Tags :
        /\ X # Y
        /\ Step(0, CreatePrivateAsset(X, a, tags), "CreatePrivateAsset", X, a)
        /\ sc' = [X |-> X, Y |-> Y, a |-> a, t |-> t, r |-> r]
        /\ createdBy' = [createdBy EXCEPT ![a] = @ \cup {X}]

StepCreatePrivateTransaction ==
    /\ Step(1, CreatePrivateTransaction(sc.X, OrgIdOf(sc.X), OrgIdOf(sc.Y), sc.t,
                                        <<sc.a>>, sc.Y),
            "CreatePrivateTransaction", sc.X, sc.t)
    /\ UNCHANGED <<sc, createdBy>>

StepAcceptTransaction ==
    /\ Step(2, AcceptTransaction(sc.Y, sc.t), "AcceptTransaction", sc.Y, sc.t)
    /\ UNCHANGED <<sc, createdBy>>

StepTransferNow ==
    /\ Step(3, TransferNow(sc.X, sc.t), "TransferNow", sc.X, sc.t)
    /\ UNCHANGED <<sc, createdBy>>

StepOwnAsset ==
    /\ Step(4, OwnAsset(sc.Y, sc.t), "OwnAsset", sc.Y, sc.t)
    /\ UNCHANGED <<sc, createdBy>>

StepReturnTransaction ==
    \E reason \in Reasons :
        /\ Step(5, ReturnTransaction(sc.Y, sc.r, sc.t, sc.X, reason),
                "ReturnTransaction", sc.Y, sc.r)
        /\ UNCHANGED <<sc, createdBy>>

StepAcceptReturnTransaction ==
    /\ Step(6, AcceptReturnTransaction(sc.X, sc.r), "AcceptReturnTransaction", sc.X, sc.r)
    /\ UNCHANGED <<sc, createdBy>>

NextScenario ==
    \/ StepCreatePrivateAsset
    \/ StepCreatePrivateTransaction
    \/ StepAcceptTransaction
    \/ StepTransferNow
    \/ StepOwnAsset
    \/ StepReturnTransaction
    \/ StepAcceptReturnTransaction

SpecScenario == Init /\ [][NextScenario]_vars

\* SpecCancel: X creates asset a, proposes it to Y in transaction t and cancels
\* t before Y has accepted; after that any organization invokes
\* AcceptTransaction, TransferNow, OwnAsset and CancelTransaction on t.
StepCancelTransaction ==
    /\ Step(2, CancelTransaction(sc.X, sc.t), "CancelTransaction", sc.X, sc.t)
    /\ UNCHANGED <<sc, createdBy>>

LaterAcceptTransaction == pc = 3 /\ CallAcceptTransaction(Orgs, {sc.t})
LaterTransferNow == pc = 3 /\ CallTransferNow(Orgs, {sc.t})
LaterOwnAsset == pc = 3 /\ CallOwnAsset(Orgs, {sc.t})
LaterCancelTransaction == pc = 3 /\ CallCancelTransaction(Orgs, {sc.t})

NextCancel ==
    \/ StepCreatePrivateAsset
    \/ StepCreatePrivateTransaction
    \/ StepCancelTransaction
    \/ LaterAcceptTransaction
    \/ LaterTransferNow
    \/ LaterOwnAsset
    \/ LaterCancelTransaction

SpecCancel == Init /\ [][NextCancel]_vars

\* SpecLogs: two organizations fill the log, each entry with its own
\* timestamp, and read it with start and offset given as strings.
StartArgs == {<<"0">>, <<"1">>, <<"2">>, <<"-", "1">>, <<"x">>}
OffsetArgs == {<<"0">>, <<"1">>, <<"2">>, <<"1", "0">>, <<"-", "1">>}

NextLogs ==
    \/ CallCreatePrivateAsset(TwoOrgs, OneAsset, GoodTags)
    \/ CallReadLogs(TwoOrgs, StartArgs, OffsetArgs)

SpecLogs == Init /\ [][NextLogs]_vars

\* SpecCreate: assets are created under unused IDs, so that no index holds
\* an ID twice, and transactions are proposed over every request list of up
\* to two IDs.
Requests ==
    {<<>>, <<"A1">>, <<"A2">>, <<"A1", "A2">>, <<"A2", "A1">>, <<"A1", "A1">>}

NextCreate ==
    \/ FreshCreatePrivateAsset
    \/ CallUpdatePrivateAsset(TwoOrgs, OneAsset, {"blue"})
    \/ RequestCreatePrivateTransaction(TwoOrgs, OneTx, Requests, TwoOrgs)

SpecCreate == Init /\ [][NextCreate]_vars

\* SpecAssets: the asset operations of one organization, with asset IDs
\* reused, and a transaction that lifts an asset out of the index and, once
\* transferred, deletes its record; six invocations that write.
NextAssets ==
    \/ RequestCreatePrivateAsset({OwnerOrg}, AssetIds, GoodTags, MaxTime + 1)
    \/ RequestUpdatePrivateAsset({OwnerOrg}, AssetIds, {"blue", BadJSON}, MaxTime + 1)
    \/ RequestRemovePrivateAsset({OwnerOrg}, {<<"A1", "A2">>}, MaxTime + 1)
    \/ RequestCreatePrivateTransaction({OwnerOrg}, OneTx, OneList, {PeerOrg})
    \/ CallAcceptTransaction({PeerOrg}, OneTx)
    \/ RequestTransferNow({OwnerOrg}, OneTx, MaxTime + 1)

SpecAssets == Init /\ [][NextAssets]_vars

\* SpecKeys: every operation, by the owner and the counterparty of one
\* transaction, with the whole call kept in lastOp.
NextKeys ==
    \/ RequestCreatePrivateAsset({OwnerOrg}, OneAsset, GoodTags, MaxTime)
    \/ RequestUpdatePrivateAsset({OwnerOrg}, OneAsset, {"blue"}, MaxTime)
    \/ RequestRemovePrivateAsset({OwnerOrg}, OneList, MaxTime)
    \/ CallReadPrivateAsset({PeerOrg}, OneAsset)
    \/ RequestCreatePrivateTransaction({OwnerOrg}, OneTx, OneList, {PeerOrg})
    \/ CallCancelTransaction(TwoOrgs, OneTx)
    \/ CallAcceptTransaction({PeerOrg}, OneTx)
    \/ CallTransferNow({OwnerOrg}, OneTx)
    \/ CallOwnAsset({PeerOrg}, OneTx)
    \/ RequestReturnTransaction({PeerOrg}, OneTx, OneTx, {OwnerOrg}, MaxTime)
    \/ CallAcceptReturnTransaction({OwnerOrg}, OneTx)

SpecKeys == Init /\ [][NextKeys]_vars

\* SpecDelete: the protocol between the owner and the counterparty on
\* transaction IDs that are reused, and DeleteTransaction by either.
NextDelete ==
    \/ CallCreatePrivateAsset({OwnerOrg}, OneAsset, GoodTags)
    \/ CallCreatePrivateTransaction({OwnerOrg}, TxIds, OneList, {PeerOrg})
    \/ CallAcceptTransaction({PeerOrg}, OneTx)
    \/ CallTransferNow({OwnerOrg}, OneTx)
    \/ CallOwnAsset({PeerOrg}, OneTx)
    \/ CallCancelTransaction({OwnerOrg}, OneTx)
    \/ CallReturnTransaction({PeerOrg}, OneTx, OneTx, {OwnerOrg})
    \/ CallAcceptReturnTransaction({OwnerOrg}, OneTx)
    \/ CallDeleteTransaction(TwoOrgs, OneTx)

SpecDelete == Init /\ [][NextDelete]_vars

\* SpecRepeat: one asset ID created again and again by the owner, one
\* transaction, and TransferNow and OwnAsset invoked repeatedly; seven
\* invocations that write.
NextRepeat ==
    \/ RequestCreatePrivateAsset({OwnerOrg}, OneAsset, GoodTags, MaxTime + 2)
    \/ RequestCreatePrivateTransaction({OwnerOrg}, OneTx, OneList, {PeerOrg})
    \/ CallAcceptTransaction({PeerOrg}, OneTx)
    \/ RequestTransferNow({OwnerOrg}, OneTx, MaxTime + 2)
    \/ RequestOwnAsset({PeerOrg}, OneTx, MaxTime + 2)

SpecRepeat == Init /\ [][NextRepeat]_vars

\* ---------------------------------------------------------------- claims
\* C1: the happy path CreatePrivateAsset, CreatePrivateTransaction,
\* AcceptTransaction, TransferNow, OwnAsset returns Done at every step, and at
\* its end the asset is in Y's index, Y holds its record with the history
\* <<Y, X>>, X has neither index entry nor record, and the transaction has
\* isNewOwnerAccepted, isCurrentOwnerApproved and isOwnershipChanged true.
C1_HappyPath ==
    /\ pc \in 1..5 => \A i \in 1..pc : trace[i] = "Done"
    /\ pc = 5 =>
         /\ InIndex(sc.Y, sc.a)
         /\ HasRecord(sc.Y, sc.a)
         /\ HistoryOrgs(sc.Y, sc.a) = <<sc.Y, sc.X>>
         /\ ~InIndex(sc.X, sc.a)
         /\ ~HasRecord(sc.X, sc.a)
         /\ Has(txs[sc.t])
         /\ Tx(sc.t).isNewOwnerAccepted
         /\ Tx(sc.t).isCurrentOwnerApproved
         /\ OwnershipChanged(sc.t)

C1_Witness == pc = 5 /\ lastOp.op = "OwnAsset" /\ result = "Done"

\* C2: for every asset (created by one organization) all of whose
\* transactions are cancelled or ownership-changed, the asset ID is in exactly
\* one organization's index and that organization holds the record.
C2_ExclusiveOwnership ==
    \A a \in AssetIds :
        (/\ Cardinality(createdBy[a]) = 1
         /\ \A t \in StoredTxs : Contains(t, a) => Terminal(t))
        => \E o \in Orgs : /\ InIndex(o, a)
                           /\ HasRecord(o, a)
                           /\ \A p \in Orgs \ {o} : ~InIndex(p, a)

\* C3: each asset ID is in the snapshot of at most one in-flight transaction.
C3_NoDoubleTransfer ==
    \A a \in AssetIds :
        Cardinality({t \in StoredTxs : InFlight(t) /\ Contains(t, a)}) <= 1

\* C4: after every operation the IDs in an organization's index are exactly
\* the IDs with a record in its partition.
IndexSet(o) == IF Has(assets[o]) THEN Range(Val(assets[o])) ELSE {}
RecordSet(o) == {a \in AssetIds : HasRecord(o, a)}

C4_IndexRecordAgreement == \A o \in Orgs : IndexSet(o) = RecordSet(o)

WrongRole(op, MSP, t) ==
    /\ Has(txs[t])
    /\ \/ op \in {"AcceptTransaction", "OwnAsset"} /\ MSP # Tx(t).newOwnerMSP
       \/ op \in {"TransferNow", "CancelTransaction"} /\ MSP = Tx(t).newOwnerMSP

RoleOps == {"AcceptTransaction", "OwnAsset", "TransferNow", "CancelTransaction"}

C6_RoleRejection ==
    [][(lastOp'.op \in RoleOps /\ lastOp'.id \in TxIds
          /\ WrongRole(lastOp'.op, lastOp'.MSP, lastOp'.id))
       => (result' = "Error" /\ UNCHANGED store)]_vars

C6_Witness ==
    /\ lastOp.op = "AcceptTransaction"
    /\ WrongRole(lastOp.op, lastOp.MSP, lastOp.id)
    /\ Tx(lastOp.id).isNewOwnerAccepted
    /\ result = "Error"

\* C7: TransferNow or CancelTransaction on transaction T by an organization
\* that is neither T's owner nor T's newOwnerMSP sets neither
\* isCurrentOwnerApproved nor isCancelled, deletes no record and puts none of
\* T's asset IDs into the caller's index.
ThirdParty(MSP, t) ==
    Has(txs[t]) /\ MSP # Tx(t).newOwnerMSP /\ ~IsOwnerOf(MSP, t)

C7_OwnerOnly ==
    [][(lastOp'.op \in {"TransferNow", "CancelTransaction"} /\ lastOp'.id \in TxIds
          /\ ThirdParty(lastOp'.MSP, lastOp'.id))
       => LET t == lastOp'.id
              Z == lastOp'.MSP
          IN /\ Val(txs'[t]).isCurrentOwnerApproved = Tx(t).isCurrentOwnerApproved
             /\ Val(txs'[t]).isCancelled = Tx(t).isCancelled
             /\ \A o \in Orgs, a \in AssetIds : HasRecord(o, a) => Has(records'[o][a])
             /\ \A a \in Range(IdsOf(Tx(t).assetIds)) :
                    Count(IF Has(assets'[Z]) THEN Val(assets'[Z]) ELSE <<>>, a)
                        <= Count(IndexOf(Z), a)]_vars

\* C8: across every operation, an asset record that exists before and after
\* keeps its history as a suffix of the new history (entries are only put in
\* front), also when CreatePrivateAsset is given an ID that has a record.
C8_HistoryAppendOnly ==
    [][\A o \in Orgs, a \in AssetIds :
          (HasRecord(o, a) /\ Has(records'[o][a]))
          => IsSuffix(Val(records[o][a]).history, Val(records'[o][a]).history)]_vars

\* C9: once the owner's CancelTransaction on a transaction that was not yet
\* accepted has returned Done, the assets are back in the owner's index and
\* every later TransferNow and OwnAsset on it returns Error and changes no key.
C9_CancelIsFinal ==
    [][/\ (pc = 2 /\ pc' = 3) => (result' = "Done" /\ InIndex(sc.X, sc.a)')
       /\ (pc = 3 /\ lastOp'.op \in {"TransferNow", "OwnAsset"} /\ lastOp'.id = sc.t)
          => (result' = "Error" /\ UNCHANGED store)]_vars

\* C10: after the happy path, ReturnTransaction by Y and AcceptReturnTransaction
\* by X return Done, and then the asset is in X's index with a record under
\* its ID in X's partition and is in neither Y's index nor Y's records.
C10_ReturnRoundTrip ==
    /\ pc >= 6 => trace[6] = "Done"
    /\ pc = 7 =>
         /\ trace[7] = "Done"
         /\ InIndex(sc.X, sc.a)
         /\ HasRecord(sc.X, sc.a)
         /\ ~InIndex(sc.Y, sc.a)
         /\ ~HasRecord(sc.Y, sc.a)

\* The stored log, and the caller's entries in it, most recent first.
StoredLog == IF Has(activity) THEN Val(activity) ELSE <<>>
EntriesOf(MSP) == GetLogsByMSP(StoredLog, MSP)
\* The entries a ReadLogs result carries in logs (null carries none).
LogsIn(details) ==
    IF "logs" \in DOMAIN details /\ Has(details.logs) THEN Val(details.logs) ELSE <<>>

\* C11: on a stored log the count ReadLogs returns is the number of entries
\* initiated by the caller, whatever start and offset are.
C11_ReadLogsCount ==
    (lastOp.op = "ReadLogs" /\ Has(activity))
    => reply.count = Len(EntriesOf(lastOp.MSP))

C13_NoStepSkipped ==
    [][\A t \in TxIds :
          (/\ lastOp'.id = t
           /\ Has(txs[t])
           /\ \/ lastOp'.op = "TransferNow" /\ ~Tx(t).isNewOwnerAccepted
              \/ lastOp'.op = "OwnAsset" /\ ~Tx(t).isCurrentOwnerApproved)
          => (result' = "Error" /\ UNCHANGED store)]_vars

C13_Witness ==
    /\ lastOp.op = "TransferNow"
    /\ lastOp.id \in StoredTxs
    /\ lastOp.MSP # Tx(lastOp.id).newOwnerMSP
    /\ IsOwnerOf(lastOp.MSP, lastOp.id)
    /\ ~Tx(lastOp.id).isNewOwnerAccepted
    /\ Contains(lastOp.id, "A1")
    /\ result = "Error"

\* The stored records of the requested IDs that have one, in request order.
Resolved(MSP, request) ==
    LET have == SelectSeq(request, LAMBDA a : HasRecord(MSP, a))
    IN [i \in 1..Len(have) |-> Val(records[MSP][have[i]])]

\* C14: a CreatePrivateTransaction that returns Done stores under the
\* transaction ID a record whose assetIds are the stored records of the
\* requested IDs that have a record in the caller's partition, in request
\* order, with the five flags false, and changes no record of the caller.
C14_CreateSnapshot ==
    [][(lastOp'.op = "CreatePrivateTransaction" /\ result' = "Done") =>
         LET MSP == lastOp'.MSP
             t   == lastOp'.id
         IN /\ Has(txs'[t])
            /\ Val(txs'[t]).assetIds = Resolved(MSP, lastOp'.assetIds)
            /\ \A f \in {"isNewOwnerAccepted", "isCurrentOwnerApproved", "isCancelled",
                          "isReturned", "isOwnershipChanged"} :
                   f \in DOMAIN Val(txs'[t]) /\ Val(txs'[t])[f] = FALSE
            /\ records'[MSP] = records[MSP]]_vars

C14_Witness ==
    /\ lastOp.op = "CreatePrivateTransaction"
    /\ result = "Done"
    /\ lastOp.assetIds = <<"A2", "A1">>
    /\ IdsOf(Tx(lastOp.id).assetIds) = <<"A1">>
    /\ Tx(lastOp.id).assetIds[1].tags = "blue"

\* C15: right after a CreatePrivateTransaction that returned Done, no asset
\* ID of the transaction's snapshot is in the caller's index.
C15_CreateLiftsAssets ==
    (lastOp.op = "CreatePrivateTransaction" /\ result = "Done")
    => \A a \in Range(IdsOf(Tx(lastOp.id).assetIds)) : ~InIndex(lastOp.MSP, a)

\* C16: when every CreatePrivateAsset uses an unused asset ID, no index holds
\* an asset ID twice, also after repeated CancelTransaction or OwnAsset.
C16_NoDuplicateIndexEntries ==
    \A o \in Orgs, a \in AssetIds : Count(IndexOf(o), a) <= 1

\* C17: the assetIds of a stored transaction, every field of every snapshot,
\* stay as they are across AcceptTransaction, TransferNow, OwnAsset and
\* CancelTransaction, and across UpdatePrivateAsset and CreatePrivateAsset.
SnapshotKeepers ==
    {"AcceptTransaction", "TransferNow", "OwnAsset", "CancelTransaction",
     "UpdatePrivateAsset", "CreatePrivateAsset"}

C17_SnapshotImmutable ==
    [][lastOp'.op \in SnapshotKeepers =>
         \A t \in StoredTxs :
             Has(txs'[t]) /\ Val(txs'[t]).assetIds = Tx(t).assetIds]_vars

\* C18: the ReturnTransaction by Y on the finalized transaction takes the
\* asset out of Y's index and deletes its record from Y's partition.
C18_ReturnRemoves ==
    (pc = 6 /\ lastOp.op = "ReturnTransaction")
    => (~InIndex(sc.Y, sc.a) /\ ~HasRecord(sc.Y, sc.a))

\* C19: ReturnTransaction by a caller that is the newOwnerMSP of no
\* ownership-changed transaction, and AcceptReturnTransaction on a stored
\* transaction that is no return transaction or by a caller other than its
\* owner, return Error and write nothing.
MayReturn(MSP) ==
    \E t \in StoredTxs : OwnershipChanged(t) /\ Tx(t).newOwnerMSP = MSP
MayAcceptReturn(MSP, t) ==
    Has(txs[t]) /\ Truthy(Tx(t), "isReturned") /\ IsOwnerOf(MSP, t)

C19_ReturnPathRoles ==
    [][(\/ lastOp'.op = "ReturnTransaction" /\ ~MayReturn(lastOp'.MSP)
        \/ lastOp'.op = "AcceptReturnTransaction"
             /\ \A t \in TxIds : lastOp'.id = t => ~MayAcceptReturn(lastOp'.MSP, t))
       => (result' = "Error" /\ UNCHANGED store)]_vars

\* C20: every CreatePrivateTransaction, AcceptTransaction, TransferNow,
\* OwnAsset, CancelTransaction, ReturnTransaction and AcceptReturnTransaction
\* that returns Error has put one entry initiated by the caller in front of
\* the activity log.
TransferOps ==
    {"CreatePrivateTransaction", "AcceptTransaction", "TransferNow", "OwnAsset",
     "CancelTransaction", "ReturnTransaction", "AcceptReturnTransaction"}

C20_AuditOnFailure ==
    [][(lastOp'.op \in TransferOps /\ result' = "Error") =>
         /\ Has(activity')
         /\ Val(activity') = <<Val(activity')[1]>> \o StoredLog
         /\ Val(activity')[1].initiated = lastOp'.MSP]_vars

\* C21: an invocation that returns Error leaves every key other than the
\* activity log (transaction records, transaction index, asset indexes,
\* asset records) as it was.
C21_NoHalfApplied ==
    [][result' = "Error" => UNCHANGED ledger]_vars

\* C22: every CreatePrivateAsset, CreatePrivateTransaction, AcceptTransaction,
\* TransferNow, OwnAsset and CancelTransaction that returns Done has put
\* exactly one entry, initiated by the caller, in front of the activity log.
LoggedOps ==
    {"CreatePrivateAsset", "CreatePrivateTransaction", "AcceptTransaction",
     "TransferNow", "OwnAsset", "CancelTransaction"}

C22_SuccessIsLogged ==
    [][(lastOp'.op \in LoggedOps /\ result' = "Done") =>
         /\ Has(activity')
         /\ Val(activity') = <<Val(activity')[1]>> \o StoredLog
         /\ Val(activity')[1].initiated = lastOp'.MSP]_vars

\* C23: across every operation the stored activity list stays as it is or
\* gets exactly one entry put in front; no entry is removed, moved or
\* rewritten.
C23_LogAppendOnly ==
    [][\/ activity' = activity
       \/ /\ Has(activity')
          /\ Len(Val(activity')) = Len(StoredLog) + 1
          /\ Tail(Val(activity')) = StoredLog]_vars

C23_Witness ==
    /\ Len(StoredLog) >= 4
    /\ \E i, j \in 1..Len(StoredLog) :
           /\ StoredLog[i].initiated # StoredLog[j].initiated
           /\ StoredLog[i].action = "OWNED"
           /\ StoredLog[j].action = "TRANSFERRED"

\* C24: after a CreatePrivateAsset(assetId, tags) by O that returned Done the
\* index of O is assetId followed by the previous index, and O's record of
\* assetId has the given tags and a history of one entry: O and the
\* timestamp of the invocation.
C24_CreatePrivateAssetEffect ==
    [][(lastOp'.op = "CreatePrivateAsset" /\ result' = "Done") =>
         LET O == lastOp'.MSP
             a == lastOp'.id
         IN /\ assets'[O] = Some(<<a>> \o IndexOf(O))
            /\ records'[O][a] =
                  Some([assetId |-> a, tags |-> lastOp'.tags,
                        history |-> <<[MSP |-> O, timestamp |-> now]>>])]_vars

C24_Witness ==
    /\ lastOp.op = "CreatePrivateAsset"
    /\ result = "Done"
    /\ IndexOf(lastOp.MSP) = <<"A2", "A1", "A2">>
    /\ lastOp.id = "A2"

\* C25: UpdatePrivateAsset on an ID without a record in the caller's partition
\* returns Error and writes nothing, whatever the index holds; on an ID with
\* a record, in the index or not, it changes at most the tags of that record
\* (given well-formed tags it returns Done and the record has them) and
\* leaves its assetId and history, the indexes, every other record and every
\* transaction as they were.
C25_UpdateFrame ==
    [][lastOp'.op = "UpdatePrivateAsset" =>
         LET O == lastOp'.MSP
             a == lastOp'.id
         IN IF ~HasRecord(O, a)
            THEN result' = "Error" /\ UNCHANGED store
            ELSE /\ UNCHANGED <<assets, txs, transactions>>
                 /\ \A o \in Orgs, b \in AssetIds :
                        (o # O \/ b # a) => records'[o][b] = records[o][b]
                 /\ Has(records'[O][a])
                 /\ \E tags \in Tags :
                        records'[O][a] = Some([Val(records[O][a]) EXCEPT !.tags = tags])
                 /\ lastOp'.tags \in Tags =>
                        /\ result' = "Done"
                        /\ Val(records'[O][a]).tags = lastOp'.tags]_vars

C25_Witness ==
    /\ lastOp.op = "UpdatePrivateAsset"
    /\ result = "Done"
    /\ ~InIndex(lastOp.MSP, lastOp.id)
    /\ \E t \in StoredTxs : Contains(t, lastOp.id) /\ InFlight(t)
    /\ Val(records[lastOp.MSP][lastOp.id]).tags = "blue"

\* C26: after a RemovePrivateAsset(assetIds) that returned Done none of the
\* given IDs is in the caller's index and none has a record in the caller's
\* partition.
C26_RemoveEffect ==
    (lastOp.op = "RemovePrivateAsset" /\ result = "Done") =>
        \A a \in Range(lastOp.assetIds) :
            ~InIndex(lastOp.MSP, a) /\ ~HasRecord(lastOp.MSP, a)

\* The keys whose value a step changes.
ChangedKeys ==
    {IndexKey(o) : o \in {o \in Orgs : assets'[o] # assets[o]}}
    \cup {RecordKey(p[1], p[2]) :
             p \in {p \in Orgs \X AssetIds : records'[p[1]][p[2]] # records[p[1]][p[2]]}}
    \cup {TxKey(t) : t \in {t \in TxIds : txs'[t] # txs[t]}}
    \cup (IF transactions' # transactions THEN {TransactionsKey} ELSE {})
    \cup (IF activity' # activity THEN {ActivityKey} ELSE {})

\* C27: an invocation by O reads and writes only keys of O's private
\* collection and of the shared collection, and changes no key outside its
\* write set; the index and the records of every other organization are
\* unchanged, and ReadPrivateAsset never answers with a record that only
\* another organization holds.
C27_PartitionIsolation ==
    [][LET O == lastOp'.MSP
           rw == RWSet(lastOp')
       IN /\ \A k \in rw.reads \cup rw.writes :
                 k[1] \in {PrivateCollection(O), assetCollection}
          /\ ChangedKeys \subseteq rw.writes
          /\ \A o \in Orgs \ {O} : assets'[o] = assets[o] /\ records'[o] = records[o]
          /\ lastOp'.op = "ReadPrivateAsset" =>
                \A o \in Orgs \ {O} :
                    (/\ Has(records[o][lastOp'.id])
                     /\ records[o][lastOp'.id] # records[O][lastOp'.id])
                    => reply'.details # records[o][lastOp'.id]]_vars

C27_Witness ==
    /\ lastOp.op = "ReadPrivateAsset"
    /\ result = "Error"
    /\ \E o \in Orgs \ {lastOp.MSP} : HasRecord(o, lastOp.id) /\ InIndex(o, lastOp.id)

\* The transitions of transaction t, as calls by either organization.
TransitionCalls(t) ==
    {[op |-> f, MSP |-> o, id |-> t, referTransactionId |-> t] :
        f \in {"CancelTransaction", "AcceptTransaction", "TransferNow", "OwnAsset",
               "ReturnTransaction", "AcceptReturnTransaction"},
        o \in TwoOrgs}

\* The read and write sets of the transitions of t that write something.
Writers(t) == {rw \in {RWSet(c) : c \in TransitionCalls(t)} : rw.writes # {}}

\* The call, simulated against the current state, returns Done.
Succeeds(call) ==
    ENABLED (/\ result' = "Done"
             /\ CASE call.op = "CancelTransaction" -> CancelTransaction(call.MSP, call.id)
                  [] call.op = "AcceptTransaction" -> AcceptTransaction(call.MSP, call.id)
                  [] call.op = "TransferNow" -> TransferNow(call.MSP, call.id)
                  [] call.op = "OwnAsset" -> OwnAsset(call.MSP, call.id)
                  [] call.op = "ReturnTransaction" ->
                         ReturnTransaction(call.MSP, call.id, call.referTransactionId,
                                           OwnerOrg, "defective")
                  [] call.op = "AcceptReturnTransaction" ->
                         AcceptReturnTransaction(call.MSP, call.id))

\* C28: of two transitions on one transaction that are simulated against
\* the same state and both write something, the one that commits second has
\* read a key the first has written, so it is rejected; and a transition
\* that returns Done has read the transaction record and writes it.
C28_RacingTransitions ==
    \A t \in OneTx :
        /\ \A first \in Writers(t) : \A second \in Writers(t) :
               second.reads \cap first.writes # {}
        /\ \A c \in TransitionCalls(t) :
               Succeeds(c) => TxKey(t) \in RWSet(c).reads \cap RWSet(c).writes

C28_Witness ==
    /\ lastOp.op = "CreatePrivateTransaction"
    /\ result = "Done"
    /\ \E c1, c2 \in TransitionCalls(lastOp.id) :
          /\ c1.op = "CancelTransaction" /\ c1.MSP = OwnerOrg /\ Succeeds(c1)
          /\ c2.op = "AcceptTransaction" /\ c2.MSP = PeerOrg /\ Succeeds(c2)

\* Calls of CreatePrivateAsset by either organization.
CreateCalls ==
    {[op |-> "CreatePrivateAsset", MSP |-> o, id |-> a, tags |-> tags] :
        o \in TwoOrgs, a \in AssetIds, tags \in GoodTags}

\* C29: two calls by different organizations that touch no common
\* transaction (CreatePrivateAsset by each, or transitions on two different
\* transactions), simulated against the same state, have no key that one
\* reads and the other writes, so both commit.
C29_UnrelatedDoNotConflict ==
    /\ \A c1, c2 \in CreateCalls :
          c1.MSP # c2.MSP => RWSet(c2).reads \cap RWSet(c1).writes = {}
    /\ \A t1, t2 \in TxIds : \A c1 \in TransitionCalls(t1), c2 \in TransitionCalls(t2) :
          (t1 # t2 /\ c1.MSP # c2.MSP) => RWSet(c2).reads \cap RWSet(c1).writes = {}

\* C30: in every state reached without RemovePrivateAsset, every asset ID
\* that CreatePrivateAsset created has a record in some organization's
\* partition or is in the assetIds snapshot of some stored transaction.
C30_NoAssetLost ==
    \A a \in AssetIds :
        createdBy[a] # {} =>
            \/ \E o \in Orgs : HasRecord(o, a)
            \/ \E t \in StoredTxs : Contains(t, a)

\* The ids of the entries of the 'transactions' list, in order.
ListedIds == IF Has(transactions)
             THEN [i \in 1..Len(Val(transactions)) |-> Val(transactions)[i].id]
             ELSE <<>>

\* C31: CreatePrivateTransaction and ReturnTransaction invoked with a
\* transactionId that already has a stored record leave that record as it
\* was, and the 'transactions' list never holds two entries with one id.
C31_TransactionIdUnique ==
    [][/\ (/\ lastOp'.op \in {"CreatePrivateTransaction", "ReturnTransaction"}
           /\ Has(txs[lastOp'.id]))
          => txs'[lastOp'.id] = txs[lastOp'.id]
       /\ \A i, j \in 1..Len(ListedIds') : ListedIds'[i] = ListedIds'[j] => i = j]_vars

\* C32: a transactionId has a stored record exactly when the 'transactions'
\* list has an entry with that id, also after an invocation that returned
\* Error.
C32_IndexComplete == StoredTxs = Range(ListedIds)

\* C33: no operation deletes a transaction record, and no operation other
\* than DeleteTransaction removes an entry from the 'transactions' list: the
\* list before is the tail end of the list after; a transaction that OwnAsset
\* has finalized is still stored and listed.
C33_TransitionsNeverDelete ==
    [][/\ \A t \in TxIds : Has(txs[t]) => Has(txs'[t])
       /\ lastOp'.op # "DeleteTransaction" => IsSuffix(ListedIds, ListedIds')
       /\ (lastOp'.op = "OwnAsset" /\ result' = "Done" /\ lastOp'.id \in Range(ListedIds))
          => (Has(txs'[lastOp'.id]) /\ lastOp'.id \in Range(ListedIds'))]_vars

C33_Witness ==
    /\ lastOp.op = "OwnAsset"
    /\ result = "Done"
    /\ Has(txs[lastOp.id])
    /\ Tx(lastOp.id).isOwnershipChanged
    /\ lastOp.id \in Range(ListedIds)

\* C34: CancelTransaction by the owner on a transaction that is accepted,
\* approved, finalized or already cancelled returns Error, leaves the
\* transaction record and the caller's index as they were; and no stored
\* transaction has isCancelled and isOwnershipChanged both true.
C34_CancelOnlyFromCreated ==
    [][/\ (/\ lastOp'.op = "CancelTransaction"
           /\ Has(txs[lastOp'.id])
           /\ OrgIdOf(lastOp'.MSP) = Tx(lastOp'.id).ownerOrgId
           /\ \/ Tx(lastOp'.id).isNewOwnerAccepted
              \/ Tx(lastOp'.id).isCurrentOwnerApproved
              \/ Truthy(Tx(lastOp'.id), "isOwnershipChanged")
              \/ Tx(lastOp'.id).isCancelled)
          => /\ result' = "Error"
             /\ txs'[lastOp'.id] = txs[lastOp'.id]
             /\ assets'[lastOp'.MSP] = assets[lastOp'.MSP]
       /\ \A t \in TxIds :
             Has(txs'[t]) =>
                 ~(Val(txs'[t]).isCancelled /\ Truthy(Val(txs'[t]), "isOwnershipChanged"))]_vars

\* C35: AcceptTransaction by the counterparty, or TransferNow by the owner,
\* invoked again right after it returned Done, returns Done and leaves the
\* transaction record, every index and every asset record as they were.
C35_AcceptApproveReinvocable ==
    [][(/\ lastOp'.op \in {"AcceptTransaction", "TransferNow"}
        /\ lastOp.op = lastOp'.op
        /\ lastOp.MSP = lastOp'.MSP
        /\ lastOp.id = lastOp'.id
        /\ result = "Done"
        /\ lastOp'.op = "TransferNow" =>
               OrgIdOf(lastOp'.MSP) = Tx(lastOp'.id).ownerOrgId)
       => (result' = "Done" /\ UNCHANGED ledger)]_vars

\* C36: OwnAsset invoked by the counterparty on a transaction whose
\* isOwnershipChanged is already true leaves the counterparty's index, every
\* asset record and the transaction record as they were.
C36_FinalizeOnce ==
    [][(/\ lastOp'.op = "OwnAsset"
        /\ Has(txs[lastOp'.id])
        /\ lastOp'.MSP = Tx(lastOp'.id).newOwnerMSP
        /\ Truthy(Tx(lastOp'.id), "isOwnershipChanged"))
       => /\ assets'[lastOp'.MSP] = assets[lastOp'.MSP]
          /\ records' = records
          /\ txs'[lastOp'.id] = txs[lastOp'.id]]_vars

\* SpecTwin: every writing operation on one asset and one transaction, with
\* the arguments of each invocation kept in lastOp.
NextTwin ==
    \/ RequestCreatePrivateAsset({OwnerOrg}, OneAsset, {"red", BadJSON}, MaxTime)
    \/ RequestUpdatePrivateAsset({OwnerOrg}, OneAsset, {"blue"}, MaxTime)
    \/ RequestRemovePrivateAsset({OwnerOrg}, OneList, MaxTime)
    \/ RequestCreatePrivateTransaction({OwnerOrg}, OneTx, OneList, {PeerOrg})
    \/ CallCancelTransaction({OwnerOrg}, OneTx)
    \/ CallAcceptTransaction({PeerOrg}, OneTx)
    \/ RequestTransferNow({OwnerOrg}, OneTx, MaxTime)
    \/ RequestOwnAsset({PeerOrg}, OneTx, MaxTime)
    \/ CallDeleteTransaction({PeerOrg}, OneTx)

SpecTwin == Init /\ [][NextTwin]_vars

\* The operation of a call of SpecTwin, run again with the same caller and
\* arguments.
Redo(call) ==
    CASE call.op = "CreatePrivateAsset" -> CreatePrivateAsset(call.MSP, call.id, call.tags)
      [] call.op = "UpdatePrivateAsset" -> UpdatePrivateAsset(call.MSP, call.id, call.tags)
      [] call.op = "RemovePrivateAsset" -> RemovePrivateAsset(call.MSP, call.assetIds)
      [] call.op = "CreatePrivateTransaction" ->
             CreatePrivateTransaction(call.MSP, OrgIdOf(call.MSP), OrgIdOf(call.newOwnerMSP),
                                      call.id, call.assetIds, call.newOwnerMSP)
      [] call.op = "CancelTransaction" -> CancelTransaction(call.MSP, call.id)
      [] call.op = "AcceptTransaction" -> AcceptTransaction(call.MSP, call.id)
      [] call.op = "TransferNow" -> TransferNow(call.MSP, call.id)
      [] call.op = "OwnAsset" -> OwnAsset(call.MSP, call.id)
      [] call.op = "DeleteTransaction" -> DeleteTransaction(call.MSP, call.id)

\* What an invocation returns and every key it may write other than
\* 'activity'.
Outcome == <<result, assets, records, txs, transactions>>

\* Values of 'activity' other than the current one: no log, a log of one
\* entry, the current log without its newest entry, and the current log
\* with one more entry.
OtherLogs ==
    LET entry == [initiated |-> PeerOrg, action |-> "CREATE ASSET", timestamp |-> 0]
    IN ({None, Some(<<entry>>)}
        \cup (IF Has(activity)
              THEN {Some(Tail(Val(activity))), Some(<<entry>> \o Val(activity))}
              ELSE {})) \ {activity}

\* The state that differs from the current one in 'activity' only, holding
\* log, is one in which call has the outcome out.
SameOutcomeWith(log, call, out) ==
    ENABLED (/\ activity' = log
             /\ UNCHANGED <<assets, records, txs, transactions, now, result, lastOp,
                            createdBy, pc, sc, trace, reply>>
             /\ (ENABLED (Redo(call) /\ Outcome' = out))')

C38_RemovesOnlyRequested ==
    [][lastOp'.op = "CreatePrivateTransaction" /\ Has(assets[lastOp'.MSP])
       => \A a \in Range(Val(assets[lastOp'.MSP])) \ Range(lastOp'.assetIds) :
             /\ Has(assets'[lastOp'.MSP])
             /\ a \in Range(Val(assets'[lastOp'.MSP]))]_vars

\* SpecNames: assets created under any ID a caller may supply, the name of
\* the index key included, and updated.
NextNames ==
    \/ NamedCreatePrivateAsset(TwoOrgs, AssetIds \cup {IndexName}, GoodTags, MaxTime)
    \/ RequestUpdatePrivateAsset(TwoOrgs, AssetIds, {"blue"}, MaxTime)

SpecNames == Init /\ [][NextNames]_vars

\* C39: whatever assetId callers supply, the 'assets' key of every
\* organization holds a list of asset IDs, never an asset record.
C39_ReservedKeysProtected ==
    \A o \in Orgs :
        Has(assets[o]) =>
            /\ ~IsObject(assets[o])
            /\ Range(Val(assets[o])) \subseteq AssetIds \cup {IndexName}

\* C40: DeleteTransaction(T) that returns Done removes from the
\* 'transactions' list every entry whose id is T, keeps the other entries in
\* their order, and changes nothing else; the record of T stays stored.
C40_DeleteTransactionEffect ==
    [][(lastOp'.op = "DeleteTransaction" /\ result' = "Done") =>
         LET Kept(entry) == entry.id # lastOp'.id
         IN /\ Has(transactions')
            /\ Val(transactions') = SelectSeq(Val(transactions), Kept)
            /\ UNCHANGED <<assets, records, txs, activity>>]_vars

=============================================================================
